---- MODULE Spec2Model ----
(***************************************************************************)
(* simple-httpfs: the byte-range cache-and-fetch engine of                 *)
(* src/simple_httpfs/httpfs.py (LRUCache, the three Fetchers, HttpFs).     *)
(*                                                                         *)
(* FUSE dispatches getattr and read on several threads (fusepy's default   *)
(* is nothreads=False) and HttpFs takes no lock, so each reader is a       *)
(* process whose steps hold at most one access to the shared state         *)
(* (lru_cache, lru_attrs, disk_cache, getting); the steps of different     *)
(* readers interleave freely.                                              *)
(***************************************************************************)
EXTENDS Integers, Sequences, FiniteSets, TLC

\* ------------------------------------------------------------------ bounds
\* Largest lru_capacity an instance is constructed with (the default is 400).
MaxCapacity == 2
\* Largest block_size an instance is constructed with (the default is 2^20).
MaxBlockSize == 2
\* Length in bytes of the remote object.
FileSize == 3
\* Largest offset and length of a read call of the sequential specification.
MaxOffset == 3
MaxSize == 3
\* Caps on self.total_requests, the number of read calls of one behaviour:
\* of the sequential and of the concurrent specification.
MaxSeqRequests == 2
MaxConcRequests == 3
\* Largest offset of a read call of the concurrent specification.
MaxConcOffset == 1
\* Cap on self.total_requests in the specification of repeated reads.
MaxCountRequests == 4
\* Cap on the number of LRUCache operations of one behaviour of SpecLRU, and
\* the largest key and value it uses.
MaxOps == 5
MaxKey == 3
MaxValue == 1

\* ------------------------------------------------------------- small helpers
Min(a, b) == IF a < b THEN a ELSE b

Max(a, b) == IF a > b THEN a ELSE b

\* Python's seq[a:b] for 0 <= a, 0 <= b.
PySlice(s, a, b) == SubSeq(s, a + 1, Min(b, Len(s)))

\* n zero bytes: np.zeros((n,), np.uint8), [0] * n.
Zeros(n) == [i \in 1..n |-> 0]

\* str.endswith on a path held as a sequence of characters.
EndsWith(p, suffix) ==
    /\ Len(p) >= Len(suffix)
    /\ SubSeq(p, Len(p) - Len(suffix) + 1, Len(p)) = suffix

\* ------------------------------------------------------------ remote object
\* Byte i (0-based) of the remote object: nonzero, so that zero fill shows.
RemoteByte(i) == i + 1

\* Bytes [start, end] (inclusive, as an HTTP or S3 Range names them), cut at
\* the end of the object.
RemoteRange(start, end) ==
    [i \in 1..Max(0, Min(end, FileSize - 1) - start + 1) |-> RemoteByte(start + i - 1)]

\* ------------------------------------------------------------------- paths
RootPath == <<"/">>
DirPath == <<"/", "d">>
LeafPath == <<"/", "f", ".", ".">>
WalPath == <<"/", "f", ".", ".", "-", "w", "a", "l">>
Paths == {RootPath, DirPath, LeafPath, WalPath}

IsSidecar(path) ==
    \/ EndsWith(path, <<".", ".", "-", "j", "o", "u", "r", "n", "a", "l">>)
    \/ EndsWith(path, <<".", ".", "-", "w", "a", "l">>)

\* getattr's test for a directory path: not a leaf and not a sidecar.
IsNonLeaf(path) == PySlice(path, Max(0, Len(path) - 2), Len(path)) # <<".", ".">> /\ ~IsSidecar(path)

\* "{}:/{}".format(self.schema, path[:-2])
Url(sch, path) == <<sch, ":/">> \o PySlice(path, 0, Max(0, Len(path) - 2))

DirAttr == [st_mode |-> "S_IFDIR", st_nlink |-> 2, st_size |-> -1]

FileAttr(sz) == [st_mode |-> "S_IFREG", st_nlink |-> 1, st_size |-> sz]

\* --------------------------------------------------------------- LRUCache
\* An OrderedDict is a sequence of [key, value] entries, oldest first.
OdKeys(od) == {od[i].key : i \in 1..Len(od)}

OdIndex(od, k) == CHOOSE i \in 1..Len(od) : od[i].key = k

OdValue(od, k) == od[OdIndex(od, k)].value

\* OrderedDict.pop(key) on a key that is present: the dict without it.
OdPop(od, k) ==
    LET i == OdIndex(od, k) IN SubSeq(od, 1, i - 1) \o SubSeq(od, i + 1, Len(od))

\* Mutant: popitem() with its default last=True drops the newest entry.
OdPopLast(od) == SubSeq(od, 1, Len(od) - 1)

\* OrderedDict.popitem(last=False) on a dict that is not empty.
OdPopFirst(od) == Tail(od)

\* od[key] = value: a new key goes last, a present key keeps its place.
OdAssign(od, k, v) ==
    IF k \in OdKeys(od)
    THEN [od EXCEPT ![OdIndex(od, k)] = [key |-> k, value |-> v]]
    ELSE Append(od, [key |-> k, value |-> v])

\* LRUCache.__getitem__ run without interruption, on a key that is present.
LRUGetItem(od, k) == OdAssign(OdPop(od, k), k, OdValue(od, k))

\* The test that guards the eviction in LRUCache.__setitem__.
LRUFull(od, capacity) == Len(od) >= capacity

\* LRUCache.__setitem__ run without interruption (capacity >= 1).
LRUSetItem(od, capacity, k, v) ==
    IF k \in OdKeys(od)
    THEN OdAssign(OdPop(od, k), k, v)
    ELSE IF LRUFull(od, capacity)
         THEN OdAssign(OdPopFirst(od), k, v)
         ELSE OdAssign(od, k, v)

\* ---------------------------------------------------------------- Fetchers
Schemas == {"http", "ftp", "s3"}

\* One HTTP attempt of HttpFetcher.get_data against a server that follows the
\* Range rules: 416 when the range starts at or past the end of the object
\* (raise_for_status raises), else 206 with the bytes that exist.
HttpGetData(start, end) ==
    IF start >= FileSize
    THEN [ok |-> FALSE, data |-> <<>>]
    ELSE [ok |-> TRUE, data |-> RemoteRange(start, end)]

\* FtpFetcher.get_data once the transfer is open: the server streams the
\* object from `start`; amt = end - start bytes are kept, zero filled when
\* the stream is shorter.
FtpGetData(start, end) ==
    LET amt == end - start
        stream == RemoteRange(start, FileSize - 1)
    IN [ok |-> TRUE,
        data |-> IF Len(stream) < amt
                 THEN stream \o Zeros(amt - Len(stream))
                 ELSE PySlice(stream, 0, amt)]

\* One attempt of S3Fetcher.get_data: get_object with a Range; S3 answers
\* InvalidRange when the range starts at or past the end of the object.
S3GetData(start, end) ==
    IF start >= FileSize
    THEN [ok |-> FALSE, data |-> <<>>]
    ELSE [ok |-> TRUE, data |-> RemoteRange(start, end)]

\* self.fetcher.get_data, one attempt, the network being up.
FetcherGetData(sch, start, end) ==
    CASE sch = "http" -> HttpGetData(start, end)
      [] sch = "ftp" -> FtpGetData(start, end)
      [] OTHER -> S3GetData(start, end)

\* The answers an HTTP server gives to the HEAD of get_size: whether one
\* arrived at all, its status, and its Content-Length header (-1: no such
\* header). A success names the size of the object; an error answer (501:
\* HEAD is not implemented) names, when it names one, the length of its
\* error body.
HeadResponses ==
    {[arrived |-> TRUE, status |-> 200, content_length |-> FileSize],
     [arrived |-> TRUE, status |-> 200, content_length |-> -1],
     [arrived |-> TRUE, status |-> 501, content_length |-> FileSize + 1],
     [arrived |-> TRUE, status |-> 501, content_length |-> -1],
     [arrived |-> FALSE, status |-> 0, content_length |-> -1]}

\* The answers to the GET with Range: bytes=0-1 of get_size: 206 with
\* Content-Range: bytes 0-1/<total> (total -1: no such header), or none.
GetResponses ==
    {[arrived |-> TRUE, status |-> 206, total |-> FileSize],
     [arrived |-> TRUE, status |-> 200, total |-> -1],
     [arrived |-> FALSE, status |-> 0, total |-> -1]}

\* HttpFetcher.get_size: int(head.headers["Content-Length"]) of whatever
\* answer requests.head returned; when that raises (no answer, no header),
\* the total of the GET's Content-Range; when that fails too, it raises.
HttpGetSize(head, get) ==
    IF head.arrived /\ head.content_length # -1
    THEN [ok |-> TRUE, size |-> head.content_length]
    ELSE IF get.arrived /\ get.total # -1
    THEN [ok |-> TRUE, size |-> get.total]
    ELSE [ok |-> FALSE, size |-> -1]

\* self.fetcher.get_size(url) per backend: the status of the HEAD answer (0
\* when there is none) and the size returned, or a raise. FtpFetcher and
\* S3Fetcher ask the server for the size and raise when it is unreachable.
SizeAnswers(sch) ==
    IF sch = "http"
    THEN {[head |-> h.status, res |-> HttpGetSize(h, g)] : h \in HeadResponses, g \in GetResponses}
    ELSE {[head |-> 0, res |-> [ok |-> TRUE, size |-> FileSize]],
          [head |-> 0, res |-> [ok |-> FALSE, size |-> -1]]}

\* stop_after_attempt(2) on HttpFetcher.get_data; FtpFetcher.get_data has no
\* retry decorator; S3Fetcher.get_data's has no stop.
HttpAttempts == 2

\* What a failed attempt number n leads to: "retry" or "raise".
RetryPolicy(sch, n) ==
    CASE sch = "http" -> IF n < HttpAttempts THEN "retry" ELSE "raise"
      [] sch = "ftp" -> "raise"
      [] OTHER -> "retry"

\* ------------------------------------------------------------------- state
Readers == {"r1", "r2"}

\* Block numbers a call of the model can name.
Blocks == 0..(MaxOffset + MaxSize)

VARIABLES
    schema,          \* self.schema
    block_size,      \* self.block_size
    capacity,        \* the capacity of self.lru_cache and of self.lru_attrs
    lru_cache,       \* self.lru_cache.cache
    lru_attrs,       \* self.lru_attrs.cache
    disk_cache,      \* self.disk_cache: cache key -> block
    getting,         \* self.getting
    total_requests, total_blocks, lru_hits, lru_misses, disk_hits, disk_misses,
    pc,              \* where each reader stands in getattr / read / get_block
    rd,              \* each reader's arguments and locals
    recording,       \* whether this behaviour records the four histories below
    size_failed,     \* history: paths whose size query failed
    get_data_calls,  \* history: get_data calls made per block number
    fetch_failed,    \* history: block numbers a get_data attempt failed for
    uncached,        \* history: block numbers evicted, culled or unreadable
    clock, atime     \* history of SpecLRU: operation count, last access per key

config == <<schema, block_size, capacity>>
caches == <<lru_cache, lru_attrs, disk_cache>>
counters == <<total_requests, total_blocks, lru_hits, lru_misses, disk_hits, disk_misses>>
history == <<recording, size_failed, get_data_calls, fetch_failed, uncached>>
lruhist == <<clock, atime>>
vars == <<config, caches, getting, counters, pc, rd, history, lruhist>>

\* The outcome of a call: kind is "none", "return" or "raise"; exc the
\* exception raised; bts, attr and val the bytes, the attributes or the
\* number returned.
NoResult == [kind |-> "none", exc |-> "", bts |-> <<>>, attr |-> DirAttr, val |-> -1]

\* A reader's frame outside any call. blocks lists, in order, the block
\* numbers the call has passed to get_block; held is the set of block
\* identities the call has added to self.getting and not yet removed.
Frame0 ==
    [op |-> "none", path |-> <<>>, size |-> 0, offset |-> 0,
     curr_start |-> 0, last_fetched |-> -1, output |-> <<>>, block_data |-> <<>>,
     blocks |-> <<>>, held |-> {},
     attempt |-> 0, head |-> 0, which |-> "none", key |-> <<>>, value |-> <<>>, attr |-> DirAttr,
     ret |-> "none", tier |-> "none", result |-> NoResult]

\* cache_key = "{}.{}.{}".format(url, self.block_size, block_num)
CacheKey(url, bs, block_num) == <<url, bs, block_num>>

\* block_num = curr_start // self.block_size
BlockNum(r) == r.curr_start \div block_size

BlockKey(r) == CacheKey(Url(schema, r.path), block_size, BlockNum(r))

\* block_id = (url, block_num)
BlockId(r) == <<Url(schema, r.path), BlockNum(r)>>

\* Keys and values of SpecLRU, and its history: when each key was last
\* inserted and last accessed, and whether the last operation evicted it.
LruKeys == 1..MaxKey
LruValues == 0..MaxValue
NeverUsed == [ins |-> 0, acc |-> 0, evicted |-> FALSE]

InitShared ==
    /\ lru_cache = <<>>
    /\ lru_attrs = <<>>
    /\ disk_cache = <<>>
    /\ getting = {}
    /\ total_requests = 0 /\ total_blocks = 0
    /\ lru_hits = 0 /\ lru_misses = 0
    /\ disk_hits = 0 /\ disk_misses = 0
    /\ pc = [t \in Readers |-> "idle"]
    /\ rd = [t \in Readers |-> Frame0]
    /\ get_data_calls = [b \in Blocks |-> 0]
    /\ fetch_failed = {}
    /\ size_failed = {}
    /\ uncached = {}
    /\ clock = 0
    /\ atime = [k \in LruKeys |-> NeverUsed]

\* ------------------------------------------------------- control transfers
Move(t, label, r) ==
    /\ pc' = [pc EXCEPT ![t] = label]
    /\ rd' = [rd EXCEPT ![t] = r]

\* The call of reader t ends: its frame is dropped; its arguments, the blocks
\* it asked for and its outcome are kept.
Finish(t, res) ==
    Move(t, "idle",
         [Frame0 EXCEPT !.op = rd[t].op, !.path = rd[t].path, !.size = rd[t].size,
                        !.offset = rd[t].offset, !.blocks = rd[t].blocks, !.result = res])

\* Mutant: read swallows the exception and returns the buffer filled so far.
RaiseSwallowed(t, exc) ==
    Finish(t, [NoResult EXCEPT !.kind = "return", !.bts = rd[t].output])

\* An exception leaves getattr or read: both log it and re-raise.
Raise(t, exc) == Finish(t, [NoResult EXCEPT !.kind = "raise", !.exc = exc])

\* ----------------------------------------------------------------- getattr
\* FUSE calls getattr(path).
GetattrCall(t, path) ==
    /\ pc[t] = "idle"
    /\ Move(t, "ga_in", [Frame0 EXCEPT !.op = "getattr", !.path = path])
    /\ UNCHANGED <<config, caches, getting, counters, history, lruhist>>

\* FUSE calls read(path, size, offset): total_requests += 1, then getattr(path).
ReadCall(t, size, offset) ==
    /\ pc[t] = "idle"
    /\ total_requests' = total_requests + 1
    /\ Move(t, "ga_in", [Frame0 EXCEPT !.op = "read", !.path = LeafPath, !.size = size,
                                       !.offset = offset])
    /\ UNCHANGED <<config, caches, getting, total_blocks, lru_hits, lru_misses,
                   disk_hits, disk_misses, history, lruhist>>

\* getattr up to its first access of lru_attrs after the membership test:
\* `path in self.lru_attrs`, then the branch on the kind of path.
GetattrLookup(t) ==
    /\ pc[t] = "ga_in"
    /\ LET r == rd[t]
           setitem(v) == [r EXCEPT !.which = "lru_attrs", !.key = r.path, !.value = v,
                                   !.ret = "ga_get"]
       IN IF r.path \in OdKeys(lru_attrs)
          THEN Move(t, "get_pop", [r EXCEPT !.which = "lru_attrs", !.key = r.path,
                                            !.ret = "ga_ret"])
          ELSE IF r.path = RootPath
          THEN Move(t, "set_pop", setitem(DirAttr))
          ELSE IF IsNonLeaf(r.path)
          THEN Move(t, "ga_ret", [r EXCEPT !.attr = DirAttr])
          ELSE IF ~IsSidecar(r.path)
          THEN Move(t, "ga_size", r)
          ELSE Move(t, "set_pop", setitem(FileAttr(0)))
    /\ UNCHANGED <<config, caches, getting, counters, history, lruhist>>

\* Mutant: a failed size query is cached as a file of size 0 before it raises.
GetSizeCachesFailure(t) ==
    /\ pc[t] = "ga_size"
    /\ \E a \in SizeAnswers(schema) :
         IF a.res.ok
         THEN /\ Move(t, "set_pop", [rd[t] EXCEPT !.which = "lru_attrs", !.key = rd[t].path,
                                                    !.value = FileAttr(a.res.size),
                                                    !.head = a.head, !.ret = "ga_get"])
              /\ UNCHANGED <<size_failed, lru_attrs>>
         ELSE /\ Raise(t, "get_size")
              /\ lru_attrs' = LRUSetItem(lru_attrs, capacity, rd[t].path, FileAttr(0))
              /\ size_failed' = IF recording THEN size_failed \cup {rd[t].path} ELSE size_failed
    /\ UNCHANGED <<config, lru_cache, disk_cache, getting, counters, recording,
                   get_data_calls, fetch_failed, uncached, lruhist>>

\* size = self.getSize(url): the Fetcher's get_size returns a size or raises;
\* getSize and getattr log and re-raise. The size becomes st_size of the
\* attributes that getattr stores next.
GetSize(t) ==
    /\ pc[t] = "ga_size"
    /\ \E a \in SizeAnswers(schema) :
         IF a.res.ok
         THEN /\ Move(t, "set_pop", [rd[t] EXCEPT !.which = "lru_attrs", !.key = rd[t].path,
                                                    !.value = FileAttr(a.res.size),
                                                    !.head = a.head, !.ret = "ga_get"])
              /\ UNCHANGED size_failed
         ELSE /\ Raise(t, "get_size")
              /\ size_failed' = IF recording THEN size_failed \cup {rd[t].path} ELSE size_failed
    /\ UNCHANGED <<config, caches, getting, counters, recording, get_data_calls, fetch_failed,
                   uncached, lruhist>>

\* getattr returns self.lru_attrs[path] (or the uncached directory dict) and
\* its frame is gone; a read goes on to its loop: output = np.zeros, last_fetched = -1,
\* curr_start = offset.
GetattrReturn(t) ==
    /\ pc[t] = "ga_ret"
    /\ IF rd[t].op = "getattr"
       THEN Finish(t, [NoResult EXCEPT !.kind = "return", !.attr = rd[t].attr])
       ELSE Move(t, "rd_check", [rd[t] EXCEPT !.head = 0, !.output = Zeros(rd[t].size),
                                              !.last_fetched = -1,
                                              !.curr_start = rd[t].offset])
    /\ UNCHANGED <<config, caches, getting, counters, history, lruhist>>

\* ------------------------------------------------- unlink, create, write
\* A call that returns 0 at once.
ReturnZero(t, op, path) ==
    /\ pc[t] = "idle"
    /\ Move(t, "idle", [Frame0 EXCEPT !.op = op, !.path = path,
                                      !.result = [NoResult EXCEPT !.kind = "return", !.val = 0]])

\* unlink(path): return 0
Unlink(t, path) ==
    /\ ReturnZero(t, "unlink", path)
    /\ UNCHANGED <<config, caches, getting, counters, history, lruhist>>

\* create(path, mode, fi): return 0
Create(t, path) ==
    /\ ReturnZero(t, "create", path)
    /\ UNCHANGED <<config, caches, getting, counters, history, lruhist>>

\* Mutant: write counts as a request, as read does.
WriteCounted(t, path) ==
    /\ ReturnZero(t, "write", path)
    /\ total_requests' = total_requests + 1
    /\ UNCHANGED <<config, caches, getting, total_blocks, lru_hits, lru_misses,
                   disk_hits, disk_misses, history, lruhist>>

\* write(path, buf, size, offset, fip): return 0
Write(t, path) ==
    /\ ReturnZero(t, "write", path)
    /\ UNCHANGED <<config, caches, getting, counters, history, lruhist>>

\* ------------------------------------------- LRUCache, one access per step
Cache(w) == IF w = "lru_cache" THEN lru_cache ELSE lru_attrs

PutCache(w, od) ==
    IF w = "lru_cache"
    THEN lru_cache' = od /\ lru_attrs' = lru_attrs
    ELSE lru_attrs' = od /\ lru_cache' = lru_cache

\* History: the block numbers bs leave a cache tier.
Uncache(bs) == uncached' = IF recording THEN uncached \cup bs ELSE uncached

\* __getitem__: value = self.cache.pop(key); KeyError when the key is gone.
LruGetPop(t) ==
    /\ pc[t] = "get_pop"
    /\ LET r == rd[t] IN
         IF r.key \in OdKeys(Cache(r.which))
         THEN /\ PutCache(r.which, OdPop(Cache(r.which), r.key))
              /\ Move(t, "get_put", [r EXCEPT !.value = OdValue(Cache(r.which), r.key)])
         ELSE /\ Raise(t, "KeyError")
              /\ UNCHANGED <<lru_cache, lru_attrs>>
    /\ UNCHANGED <<config, disk_cache, getting, counters, history, lruhist>>

\* __getitem__: self.cache[key] = value; return value. The caller is
\* getattr (`return self.lru_attrs[path]`) or get_block (`hit = ...; return hit`).
LruGetPut(t) ==
    /\ pc[t] = "get_put"
    /\ LET r == rd[t] IN
         /\ PutCache(r.which, OdAssign(Cache(r.which), r.key, r.value))
         /\ IF r.ret = "ga_ret"
            THEN Move(t, "ga_ret", [r EXCEPT !.attr = r.value])
            ELSE Move(t, "rd_remove", [r EXCEPT !.block_data = r.value, !.tier = "memory"])
    /\ UNCHANGED <<config, disk_cache, getting, counters, history, lruhist>>

\* __setitem__: try: self.cache.pop(key) / except KeyError.
LruSetPop(t) ==
    /\ pc[t] = "set_pop"
    /\ LET r == rd[t] IN
         IF r.key \in OdKeys(Cache(r.which))
         THEN /\ PutCache(r.which, OdPop(Cache(r.which), r.key))
              /\ Move(t, "set_put", r)
         ELSE /\ Move(t, "set_len", r)
              /\ UNCHANGED <<lru_cache, lru_attrs>>
    /\ UNCHANGED <<config, disk_cache, getting, counters, history, lruhist>>

\* __setitem__: if len(self.cache) >= self.capacity.
LruSetLen(t) ==
    /\ pc[t] = "set_len"
    /\ IF LRUFull(Cache(rd[t].which), capacity)
       THEN Move(t, "set_evict", rd[t])
       ELSE Move(t, "set_put", rd[t])
    /\ UNCHANGED <<config, caches, getting, counters, history, lruhist>>

\* __setitem__: self.cache.popitem(last=False); KeyError on an empty dict.
LruSetEvict(t) ==
    /\ pc[t] = "set_evict"
    /\ LET r == rd[t]
           od == Cache(r.which)
       IN IF od = <<>>
          THEN /\ Raise(t, "KeyError")
               /\ UNCHANGED <<lru_cache, lru_attrs, uncached>>
          ELSE /\ PutCache(r.which, OdPopFirst(od))
               /\ Move(t, "set_put", r)
               /\ Uncache(IF r.which = "lru_cache" THEN {Head(od).key[3]} ELSE {})
    /\ UNCHANGED <<config, disk_cache, getting, counters, recording, size_failed, get_data_calls,
                   fetch_failed, lruhist>>

\* __setitem__: self.cache[key] = value. The caller is getattr (which then
\* returns self.lru_attrs[path]) or get_block (after a disk hit: return
\* block_data; after a fetch: self.disk_cache[cache_key] = block_data).
LruSetPut(t) ==
    /\ pc[t] = "set_put"
    /\ LET r == rd[t] IN
         /\ PutCache(r.which, OdAssign(Cache(r.which), r.key, r.value))
         /\ IF r.ret = "ga_get"
            THEN Move(t, "get_pop", [r EXCEPT !.ret = "ga_ret"])
            ELSE IF r.ret = "rd_remove"
            THEN Move(t, "rd_remove", [r EXCEPT !.tier = "disk"])
            ELSE Move(t, "gb_disk_set", r)
    /\ UNCHANGED <<config, disk_cache, getting, counters, history, lruhist>>

\* ------------------------------------------------------------ read's loop
\* block_start = self.block_size * (curr_start // self.block_size)
BlockStart(r) == block_size * (r.curr_start \div block_size)

\* data_start = curr_start - (curr_start // self.block_size) * self.block_size
DataStart(r) == r.curr_start - (r.curr_start \div block_size) * block_size

\* data_end = min(self.block_size, offset + size - block_start)
DataEnd(r) == Min(block_size, r.offset + r.size - BlockStart(r))

\* data = block_data[data_start:data_end]
\* output[d_start : d_start + len(data)] = data, with d_start = curr_start - offset
CopyOut(r) ==
    LET data == PySlice(r.block_data, DataStart(r), DataEnd(r))
        d_start == r.curr_start - r.offset
    IN [i \in 1..Len(r.output) |->
          IF i > d_start /\ i <= d_start + Len(data) THEN data[i - d_start] ELSE r.output[i]]

\* The loop body after get_block: the copy, then
\* last_fetched = curr_start + (data_end - data_start); curr_start += the same.
Advance(r) ==
    [r EXCEPT !.output = CopyOut(r), !.tier = "none",
              !.last_fetched = r.curr_start + (DataEnd(r) - DataStart(r)),
              !.curr_start = r.curr_start + (DataEnd(r) - DataStart(r))]

\* while last_fetched < offset + size
LoopGoesOn(r) == r.last_fetched < r.offset + r.size

\* while block_id in self.getting: sleep(0.05)
ReadWait(t) ==
    /\ pc[t] = "rd_check"
    /\ IF BlockId(rd[t]) \in getting
       THEN Move(t, "rd_check", rd[t])
       ELSE Move(t, "rd_add", rd[t])
    /\ UNCHANGED <<config, caches, getting, counters, history, lruhist>>

\* self.getting.add(block_id); get_block is entered (cache_key is computed).
ReadAdd(t) ==
    /\ pc[t] = "rd_add"
    /\ getting' = getting \cup {BlockId(rd[t])}
    /\ Move(t, "gb_in", [rd[t] EXCEPT !.blocks = Append(@, BlockNum(rd[t])),
                                      !.held = @ \cup {BlockId(rd[t])}])
    /\ UNCHANGED <<config, caches, counters, history, lruhist>>

\* Mutant: the identity of a block is taken out of self.getting only when the
\* call returns, not before the loop goes on to the next block.
ReadRemoveAtReturn(t) ==
    /\ pc[t] = "rd_remove"
    /\ LET r == rd[t] IN
         IF BlockId(r) \notin getting
         THEN /\ Raise(t, "KeyError")
              /\ UNCHANGED getting
         ELSE IF LoopGoesOn(Advance(r))
         THEN /\ Move(t, "rd_check", Advance(r))
              /\ UNCHANGED getting
         ELSE /\ getting' = getting \ r.held
              /\ Finish(t, [NoResult EXCEPT !.kind = "return",
                                            !.bts = Advance(r).output])
    /\ UNCHANGED <<config, caches, counters, history, lruhist>>

\* self.getting.remove(block_id) (KeyError when it is not there), the copy
\* into output, the loop test, and `return bytes(output)` when the loop ends.
ReadRemove(t) ==
    /\ pc[t] = "rd_remove"
    /\ LET r == rd[t] IN
         IF BlockId(r) \notin getting
         THEN /\ Raise(t, "KeyError")
              /\ UNCHANGED getting
         ELSE /\ getting' = getting \ {BlockId(r)}
              /\ IF LoopGoesOn(Advance(r))
                 THEN Move(t, "rd_check", [Advance(r) EXCEPT !.held = @ \ {BlockId(r)}])
                 ELSE Finish(t, [NoResult EXCEPT !.kind = "return",
                                                 !.bts = Advance(r).output])
    /\ UNCHANGED <<config, caches, counters, history, lruhist>>

\* --------------------------------------------------------------- get_block
\* self.total_blocks += 1; if cache_key in self.lru_cache: lru_hits += 1
\* else: lru_misses += 1.
BlockLookup(t) ==
    /\ pc[t] = "gb_in"
    /\ total_blocks' = total_blocks + 1
    /\ IF BlockKey(rd[t]) \in OdKeys(lru_cache)
       THEN /\ lru_hits' = lru_hits + 1
            /\ UNCHANGED lru_misses
            /\ Move(t, "get_pop", [rd[t] EXCEPT !.which = "lru_cache",
                                                !.key = BlockKey(rd[t]), !.ret = "gb_hit"])
       ELSE /\ lru_misses' = lru_misses + 1
            /\ UNCHANGED lru_hits
            /\ Move(t, "gb_disk_in", rd[t])
    /\ UNCHANGED <<config, caches, getting, total_requests, disk_hits, disk_misses,
                   history, lruhist>>

\* History and frame of `block_data = self.fetcher.get_data(...)` being called.
CallGetData(t) ==
    /\ get_data_calls' = IF recording
                         THEN [get_data_calls EXCEPT ![BlockNum(rd[t])] = @ + 1]
                         ELSE get_data_calls
    /\ Move(t, "gb_fetch", [rd[t] EXCEPT !.attempt = 1])

\* if cache_key in self.disk_cache; when not: disk_misses += 1 and the
\* Fetcher's get_data is called.
DiskLookup(t) ==
    /\ pc[t] = "gb_disk_in"
    /\ IF BlockKey(rd[t]) \in DOMAIN disk_cache
       THEN /\ Move(t, "gb_disk_get", rd[t])
            /\ UNCHANGED <<disk_misses, get_data_calls>>
       ELSE /\ disk_misses' = disk_misses + 1
            /\ CallGetData(t)
    /\ UNCHANGED <<config, caches, getting, total_requests, total_blocks, lru_hits,
                   lru_misses, disk_hits, recording, size_failed, fetch_failed, uncached, lruhist>>

\* What an access of the persistent store comes to: it works, it raises
\* KeyError (the key is gone or its file is missing), or it raises another
\* error of the store (its database times out, the disk is full, the value
\* cannot be unpickled).
DiskOutcomes == {"ok", "KeyError", "DiskError"}

\* block_data = self.disk_cache[cache_key]; disk_hits += 1 and
\* self.lru_cache[cache_key] = block_data follow. except KeyError: pass,
\* then disk_misses += 1 and the Fetcher's get_data is called. No other
\* exception is caught: it leaves get_block and read.
DiskGet(t) ==
    /\ pc[t] = "gb_disk_get"
    /\ \E outcome \in DiskOutcomes :
         LET r == rd[t]
             k == BlockKey(r)
         IN IF outcome = "DiskError"
            THEN /\ Raise(t, "DiskError")
                 /\ UNCHANGED <<disk_hits, disk_misses, get_data_calls, uncached>>
            ELSE IF outcome = "ok" /\ k \in DOMAIN disk_cache
            THEN /\ disk_hits' = disk_hits + 1
                 /\ Move(t, "set_pop", [r EXCEPT !.block_data = disk_cache[k],
                                                 !.which = "lru_cache", !.key = k,
                                                 !.value = disk_cache[k],
                                                 !.ret = "rd_remove"])
                 /\ UNCHANGED <<disk_misses, get_data_calls, uncached>>
            ELSE /\ disk_misses' = disk_misses + 1
                 /\ Uncache({BlockNum(r)})
                 /\ CallGetData(t)
                 /\ UNCHANGED disk_hits
    /\ UNCHANGED <<config, caches, getting, total_requests, total_blocks, lru_hits,
                   lru_misses, recording, size_failed, fetch_failed, lruhist>>

\* The Fetcher's get_data(url, block_start, block_start + block_size - 1)
\* answers: one attempt ends (the network may be down); a failed one is
\* retried or raised as the backend's retry policy has it, and the exception
\* is that of the last attempt. A raise leaves get_block and read.
GetData(t) ==
    /\ pc[t] = "gb_fetch"
    /\ \E up \in BOOLEAN :
         LET r == rd[t]
             block_start == BlockNum(r) * block_size
             resp == FetcherGetData(schema, block_start, block_start + block_size - 1)
         IN IF up /\ resp.ok
            THEN /\ Move(t, "set_pop", [r EXCEPT !.block_data = resp.data,
                                                 !.which = "lru_cache", !.key = BlockKey(r),
                                                 !.value = resp.data, !.ret = "gb_disk_set"])
                 /\ UNCHANGED fetch_failed
            ELSE /\ fetch_failed' = IF recording
                                     THEN fetch_failed \cup {BlockNum(r)}
                                     ELSE fetch_failed
                 /\ IF RetryPolicy(schema, r.attempt) = "retry"
                    THEN Move(t, "gb_fetch",
                              [r EXCEPT !.attempt = IF schema = "http" THEN @ + 1 ELSE @])
                    ELSE Raise(t, IF up THEN "HTTPError" ELSE "ConnectionError")
    /\ UNCHANGED <<config, caches, getting, counters, recording, size_failed, get_data_calls, uncached,
                   lruhist>>

\* Mutant: the block is stored under the key of the next block.
DiskStoreNextKey(dc, k, v, culled) ==
    [x \in (DOMAIN dc \cup {<<k[1], k[2], k[3] + 1>>}) \ culled |->
       IF x = <<k[1], k[2], k[3] + 1>> THEN v ELSE dc[x]]

\* Mutant: the fetched block is not written to the store.
DiskStoreSkipped(dc, k, v, culled) == [x \in DOMAIN dc \ culled |-> dc[x]]

\* diskcache's set: the key is stored, and the store may cull other keys to
\* keep its size limit.
DiskStore(dc, k, v, culled) ==
    [x \in (DOMAIN dc \cup {k}) \ culled |-> IF x = k THEN v ELSE dc[x]]

\* self.disk_cache[cache_key] = block_data; return block_data. The
\* assignment stands in no try block: an error of the store leaves get_block
\* and read.
DiskSet(t) ==
    /\ pc[t] = "gb_disk_set"
    /\ \/ /\ \E culled \in SUBSET (DOMAIN disk_cache \ {BlockKey(rd[t])}) :
               /\ disk_cache' = DiskStore(disk_cache, BlockKey(rd[t]), rd[t].block_data, culled)
               /\ Uncache({k[3] : k \in culled})
          /\ Move(t, "rd_remove", [rd[t] EXCEPT !.tier = "fetch"])
       \/ /\ Raise(t, "DiskError")
          /\ UNCHANGED <<disk_cache, uncached>>
    /\ UNCHANGED <<config, lru_cache, lru_attrs, getting, counters, recording, size_failed,
                   get_data_calls, fetch_failed, lruhist>>

\* ---------------------------------------------------------- specifications
\* One step of reader t inside a call.
Step(t) ==
    \/ GetattrLookup(t) \/ GetSize(t) \/ GetattrReturn(t)
    \/ LruGetPop(t) \/ LruGetPut(t)
    \/ LruSetPop(t) \/ LruSetLen(t) \/ LruSetEvict(t) \/ LruSetPut(t)
    \/ ReadWait(t) \/ ReadAdd(t) \/ ReadRemove(t)
    \/ BlockLookup(t) \/ DiskLookup(t) \/ DiskGet(t) \/ GetData(t) \/ DiskSet(t)

\* The sequential specification: one reader, one call at a time, every
\* backend, every block size, every offset and length up to the bounds.
InitSeq ==
    /\ InitShared
    /\ recording = FALSE
    /\ schema \in Schemas
    /\ block_size \in 1..MaxBlockSize
    /\ capacity \in 1..MaxCapacity

NextSeq ==
    \/ /\ total_requests < MaxSeqRequests
       /\ \E size \in 0..MaxSize, offset \in 0..MaxOffset : ReadCall("r1", size, offset)
    \/ Step("r1")

SpecSeq == InitSeq /\ [][NextSeq]_vars

\* The concurrent specification: FUSE's threads call read at any time and
\* their steps interleave. One backend, blocks of one byte, a cache of one
\* entry, reads of one byte.
ConcSchema == "http"

Init ==
    /\ InitShared
    /\ recording = TRUE
    /\ schema = ConcSchema
    /\ block_size = 1
    /\ capacity = 1

Next ==
    \E t \in Readers :
       \/ /\ total_requests < MaxConcRequests
          /\ \E offset \in 0..MaxConcOffset : ReadCall(t, 1, offset)
       \/ Step(t)

Spec == Init /\ [][Next]_vars

\* The attribute specification: one thread calls getattr on the paths of the
\* model, one call at a time.
InitAttr ==
    /\ InitShared
    /\ recording = TRUE
    /\ schema \in Schemas
    /\ block_size = 1
    /\ capacity \in 1..MaxCapacity

NextAttr ==
    \/ \E path \in Paths : GetattrCall("r1", path)
    \/ GetattrLookup("r1") \/ GetSize("r1") \/ GetattrReturn("r1")
    \/ LruGetPop("r1") \/ LruGetPut("r1")
    \/ LruSetPop("r1") \/ LruSetLen("r1") \/ LruSetEvict("r1") \/ LruSetPut("r1")

SpecAttr == InitAttr /\ [][NextAttr]_vars

\* The specification of the mutating calls: one thread reads one byte at a
\* time while another calls unlink, create and write at any moment.
InitMut ==
    /\ InitShared
    /\ recording = FALSE
    /\ schema \in Schemas
    /\ block_size = 1
    /\ capacity = 1

NextMut ==
    \/ /\ total_requests < MaxConcRequests
       /\ \E offset \in 0..MaxConcOffset : ReadCall("r1", 1, offset)
    \/ Step("r1")
    \/ \E path \in Paths : Unlink("r2", path) \/ Create("r2", path) \/ Write("r2", path)

SpecMut == InitMut /\ [][NextMut]_vars

\* The specification of reads that span blocks: FUSE's threads call read at
\* any time with ranges of one block or more, and their steps interleave.
InitSpan ==
    /\ InitShared
    /\ recording = FALSE
    /\ schema = ConcSchema
    /\ block_size = 1
    /\ capacity = 1

NextSpan ==
    \E t \in Readers :
       \/ /\ total_requests < MaxSeqRequests
          /\ \E size \in 1..MaxBlockSize, offset \in 0..MaxConcOffset :
                ReadCall(t, size, offset)
       \/ Step(t)

SpecSpan == InitSpan /\ [][NextSpan]_vars

\* The specification of repeated reads: one thread reads one byte at a time,
\* one call after the other, often enough for a block to be fetched, evicted
\* from the in-memory cache and asked for again after a failed call.
InitCount ==
    /\ InitShared
    /\ recording = FALSE
    /\ schema \in Schemas
    /\ block_size = 1
    /\ capacity = 1

NextCount ==
    \/ /\ total_requests < MaxCountRequests
       /\ \E offset \in 0..MaxConcOffset : ReadCall("r1", 1, offset)
    \/ Step("r1")

SpecCount == InitCount /\ [][NextCount]_vars

\* The LRUCache specification: one LRUCache of each capacity, used on its
\* own through __getitem__ and __setitem__, every operation run to its end.
InitLRU ==
    /\ InitShared
    /\ recording = FALSE
    /\ schema = ConcSchema
    /\ block_size = 1
    /\ capacity \in 1..MaxCapacity

\* cache[key], the key being present (a missing key raises KeyError and
\* changes nothing).
LruGetItemCall(k) ==
    /\ clock < MaxOps
    /\ k \in OdKeys(lru_cache)
    /\ lru_cache' = LRUGetItem(lru_cache, k)
    /\ clock' = clock + 1
    /\ atime' = [atime EXCEPT ![k].acc = clock + 1]
    /\ UNCHANGED <<config, lru_attrs, disk_cache, getting, counters, pc, rd, history>>

\* cache[key] = value
LruSetItemCall(k, v) ==
    /\ clock < MaxOps
    /\ lru_cache' = LRUSetItem(lru_cache, capacity, k, v)
    /\ clock' = clock + 1
    /\ atime' = [x \in LruKeys |->
                   IF x = k
                   THEN [ins |-> IF k \in OdKeys(lru_cache) THEN atime[k].ins ELSE clock + 1,
                         acc |-> clock + 1, evicted |-> FALSE]
                   ELSE [atime[x] EXCEPT !.evicted =
                            x \in OdKeys(lru_cache) /\ x \notin OdKeys(lru_cache')]]
    /\ UNCHANGED <<config, lru_attrs, disk_cache, getting, counters, pc, rd, history>>

NextLRU ==
    \/ \E k \in LruKeys : LruGetItemCall(k)
    \/ \E k \in LruKeys, v \in LruValues : LruSetItemCall(k, v)

SpecLRU == InitLRU /\ [][NextLRU]_vars

\* ============================================================== properties
\* The readers whose get_data call for block b is in flight.
InFlight(b) == {t \in Readers : pc[t] = "gb_fetch" /\ BlockNum(rd[t]) = b}

\* C1: in every reachable state at most one Fetcher get_data call is in
\* flight for a block identity.
C1_SingleFlight == \A b \in Blocks : Cardinality(InFlight(b)) <= 1

\* What read(path, size, offset) is to return: the bytes of the remote object
\* in [offset, offset + size), zeros at and beyond the end of the object.
ExpectedBytes(offset, size) ==
    [i \in 1..size |-> IF offset + i - 1 < FileSize THEN RemoteByte(offset + i - 1) ELSE 0]

\* Reader t's read call is over.
ReadOver(t) == pc[t] = "idle" /\ rd[t].op = "read" /\ rd[t].result.kind # "none"

\* C2: a read whose range lies within the file returns exactly `size` bytes,
\* those of the remote object, whatever the backend, the block size and the
\* cache content earlier reads left.
C2_ReadRoundTrip ==
    \A t \in Readers :
       (ReadOver(t) /\ rd[t].result.kind = "return"
                    /\ rd[t].offset + rd[t].size <= FileSize) =>
          rd[t].result.bts = ExpectedBytes(rd[t].offset, rd[t].size)

\* C3: as long as no fetch of a block has failed and the block has not left
\* a cache tier, get_data has been called at most once for it, however many
\* readers asked for it.
C3_ExactlyOneFetch ==
    \A b \in Blocks : (b \notin fetch_failed /\ b \notin uncached) => get_data_calls[b] <= 1

\* C4: once a read call has returned or raised (no call is in progress), the
\* in-flight set holds no entry.
C4_InflightCleared == (\A t \in Readers : pc[t] = "idle") => getting = {}

\* C5: a read that extends past end-of-file does not raise (unless the
\* network fails) and returns `size` bytes: the remote bytes, then zeros.
C5_PastEofZeroFill ==
    \A t \in Readers :
       (ReadOver(t) /\ rd[t].offset + rd[t].size > FileSize) =>
          IF rd[t].result.kind = "return"
          THEN rd[t].result.bts = ExpectedBytes(rd[t].offset, rd[t].size)
          ELSE rd[t].result.exc \in {"ConnectionError", "get_size"}

\* C8: both LRU caches hold at most lru_capacity entries in every reachable state.
C8_CapacityBound == Len(lru_cache) <= capacity /\ Len(lru_attrs) <= capacity

\* C6: a step of get_block's miss path, up to and including the failure of
\* the Fetcher's data call, changes neither cache tier, and the key is not
\* in the in-memory cache after it; the failing step ends the read with the
\* exception and without a buffer.
C6_FailedFetchStoresNothing ==
    [][\A t \in Readers :
          /\ (/\ pc[t] \in {"gb_in", "gb_disk_in", "gb_disk_get", "gb_fetch"}
              /\ pc'[t] \in {"gb_disk_in", "gb_disk_get", "gb_fetch", "idle"}) =>
                /\ lru_cache' = lru_cache
                /\ disk_cache' = disk_cache
                /\ BlockKey(rd[t]) \notin OdKeys(lru_cache')
          /\ (pc[t] = "gb_fetch" /\ pc'[t] = "idle") =>
                /\ rd'[t].result.kind = "raise"
                /\ rd'[t].result.exc \in {"HTTPError", "ConnectionError"}
                /\ rd'[t].result.bts = <<>>]_vars

\* A read failed on a data fetch while the in-memory cache holds a block.
C6_Witness ==
    \E t \in Readers :
       /\ ReadOver(t)
       /\ rd[t].result.kind = "raise"
       /\ rd[t].result.exc \in {"HTTPError", "ConnectionError"}
       /\ lru_cache # <<>>

\* C7: an LRUCache operation evicts at most one key, and only when a new key
\* is inserted into a full cache, and then exactly one: the key accessed
\* (read or written) longest ago; the key just read or written is the most
\* recently used entry; the cache never holds more than `capacity` keys.
C7_EvictsLeastRecent ==
    [][LET old == OdKeys(lru_cache)
           new == OdKeys(lru_cache')
           removed == old \ new
           added == new \ old
       IN /\ Cardinality(removed) <= 1
          /\ (added # {} /\ Cardinality(old) >= capacity) => Cardinality(removed) = 1
          /\ removed # {} =>
                /\ added # {}
                /\ Cardinality(old) = capacity
                /\ \A v \in removed, k \in old : atime[v].acc <= atime[k].acc
          /\ Cardinality(new) <= capacity
          /\ Len(lru_cache') = Cardinality(new)
          /\ \A i \in 1..Len(lru_cache') :
                atime'[lru_cache'[i].key].acc <= atime'[lru_cache'[Len(lru_cache')].key].acc]_vars

\* The last operation evicted a key while a key inserted before it stays:
\* an access protected the older key.
C7_Witness ==
    \E v \in LruKeys :
       /\ atime[v].evicted
       /\ \E k \in OdKeys(lru_cache) : atime[k].ins < atime[v].ins

\* C9: a failing size query ends getattr with the exception and leaves the
\* attribute cache as it was, without an entry for the path; the next
\* getattr of a path whose size query failed and that is not cached queries
\* the Fetcher again.
C9_SizeFailureNotCached ==
    [][\A t \in Readers :
          /\ (pc[t] = "ga_size" /\ pc'[t] = "idle") =>
                /\ rd'[t].result.kind = "raise"
                /\ lru_attrs' = lru_attrs
                /\ rd[t].path \notin OdKeys(lru_attrs')
          /\ (/\ pc[t] = "ga_in" /\ pc'[t] # "ga_in"
              /\ rd[t].path \in size_failed
              /\ rd[t].path \notin OdKeys(lru_attrs)) => pc'[t] = "ga_size"]_vars

\* The size query of the leaf path failed once, and a later getattr cached
\* its size.
C9_Witness ==
    /\ LeafPath \in size_failed
    /\ LeafPath \in OdKeys(lru_attrs)
    /\ OdValue(lru_attrs, LeafPath) = FileAttr(FileSize)

\* The content of block b of the remote object as the backend delivers it.
ExpectedBlock(b) ==
    FetcherGetData(schema, b * block_size, b * block_size + block_size - 1).data

\* C10: get_block returns the same content for a block identity on every
\* call and out of every tier (memory, persistent store, fresh fetch), and
\* both tiers hold that content under the block's key.
C10_TierTransparent ==
    /\ \A t \in Readers : pc[t] = "rd_remove" => rd[t].block_data = ExpectedBlock(BlockNum(rd[t]))
    /\ \A i \in 1..Len(lru_cache) : lru_cache[i].value = ExpectedBlock(lru_cache[i].key[3])
    /\ \A k \in DOMAIN disk_cache : disk_cache[k] = ExpectedBlock(k[3])

\* get_block returns a block out of the persistent store: it was fetched
\* earlier and has been evicted from the in-memory cache since.
C10_Witness ==
    \E t \in Readers :
       /\ pc[t] = "rd_remove"
       /\ rd[t].tier = "disk"
       /\ rd[t].block_data # <<>>

\* C11: no read ends with an error of the persistent store: a failing read
\* of the store is a cache miss and a failing write a no-op.
C11_DiskErrorsContained ==
    \A t \in Readers : ReadOver(t) => rd[t].result.exc # "DiskError"

MutatingOps == {"unlink", "create", "write"}

\* C12: a call of unlink, create or write returns 0 and leaves both LRU
\* caches, the persistent store, the in-flight set and the counters as they
\* were, whatever the other thread is doing.
C12_MutatorsAreNoOps ==
    [][\A t \in Readers :
          (rd'[t].op \in MutatingOps /\ rd'[t] # rd[t]) =>
             /\ caches' = caches
             /\ getting' = getting
             /\ counters' = counters
             /\ pc'[t] = "idle"
             /\ rd'[t].result.kind = "return"
             /\ rd'[t].result.val = 0]_vars

\* write has returned 0 while a read is under way, with a block cached and
\* an in-flight entry.
C12_Witness ==
    \E t, u \in Readers :
       /\ rd[t].op = "write" /\ rd[t].result.val = 0
       /\ pc[u] # "idle"
       /\ lru_cache # <<>>
       /\ getting # {}

\* The exceptions a failed get_data call leaves read with.
FetchErrors == {"HTTPError", "ConnectionError"}

\* C13: a get_data call makes at most HttpAttempts attempts, and once a
\* read of a block has failed on an exhausted retry budget, a later read of
\* the same block by another caller is not held back by it: it does not find
\* the block's identity in the in-flight set when no call is fetching it.
C13_FreshAttemptAfterExhaustion ==
    /\ \A t \in Readers : rd[t].attempt <= HttpAttempts
    /\ \A t, u \in Readers :
          (/\ u # t
           /\ ReadOver(u) /\ rd[u].result.exc \in FetchErrors
           /\ pc[t] = "rd_check"
           /\ BlockNum(rd[t]) = rd[u].offset \div block_size) =>
              BlockId(rd[t]) \notin getting

\* C14: on the ftp and on the s3 backend a failed attempt of get_data is
\* attempted again, without a cap: no read over these backends ends with the
\* exception of a failed get_data attempt.
C14_FtpAndS3Retry ==
    \A t \in Readers :
       (ReadOver(t) /\ schema \in {"ftp", "s3"}) => rd[t].result.exc \notin FetchErrors

\* C15: when the HEAD of the HTTP size query does not succeed (no answer, or
\* an error status such as 501), the size that getattr goes on to store is
\* the total of the ranged GET's Content-Range, i.e. the size of the object,
\* never a value taken from the failed HEAD.
C15_HeadFailureFallsBack ==
    \A t \in Readers :
       (/\ pc[t] = "set_pop" /\ rd[t].which = "lru_attrs"
        /\ schema = "http"
        /\ rd[t].path # RootPath /\ ~IsSidecar(rd[t].path)
        /\ rd[t].head # 200) =>
           rd[t].value.st_size = FileSize

\* C16: get_block calls the Fetcher's get_data only after it looked for the
\* key in the in-memory cache and then in the persistent store, and only
\* when, at the call, the key is in neither (or the store holds it but could
\* not give it back): a block present in a tier is never fetched again.
C16_NoRefetchWhilePresent ==
    [][\A t \in Readers :
          (pc[t] # "gb_fetch" /\ pc'[t] = "gb_fetch") =>
             /\ pc[t] \in {"gb_disk_in", "gb_disk_get"}
             /\ BlockKey(rd[t]) \notin OdKeys(lru_cache)
             /\ pc[t] = "gb_disk_in" => BlockKey(rd[t]) \notin DOMAIN disk_cache]_vars

OverlapBlocks(offset, size) ==
    IF size = 0
    THEN <<>>
    ELSE [i \in 1..((offset + size - 1) \div block_size - offset \div block_size + 1) |->
            offset \div block_size + i - 1]

\* C18: a read passes to get_block the blocks that overlap its range, each
\* once, in ascending order, and no other block: at any moment the blocks
\* asked for are a prefix of that list, and all of it when read returns.
C18_ExactBlocks ==
    \A t \in Readers :
       rd[t].op = "read" =>
          LET want == OverlapBlocks(rd[t].offset, rd[t].size) IN
             /\ Len(rd[t].blocks) <= Len(want)
             /\ rd[t].blocks = SubSeq(want, 1, Len(rd[t].blocks))
             /\ (ReadOver(t) /\ rd[t].result.kind = "return") => rd[t].blocks = want

\* Reader u is between self.getting.add(block_id) and
\* self.getting.remove(block_id) for the block identity id.
Fetching(u, id) ==
    /\ BlockId(rd[u]) = id
    /\ \/ pc[u] \in {"gb_in", "gb_disk_in", "gb_disk_get", "gb_fetch", "gb_disk_set", "rd_remove"}
       \/ /\ pc[u] \in {"get_pop", "get_put", "set_pop", "set_len", "set_evict", "set_put"}
          /\ rd[u].which = "lru_cache"

\* C19: a reader waits on a block identity only while another reader's fetch
\* of that identity is in progress; once that fetch is over, succeeded or
\* failed, the identity is out of the in-flight set and the reader goes on.
C19_NoOrphanWait ==
    \A t \in Readers :
       (pc[t] = "rd_check" /\ BlockId(rd[t]) \in getting) =>
          \E u \in Readers \ {t} : Fetching(u, BlockId(rd[t]))

\* C20: no reader finds a block gone from the in-memory block cache that its
\* membership test has just seen, nor an in-flight entry gone that it added
\* itself: no step of a call raises the KeyError of self.cache.pop(key) or
\* popitem on the block cache, or of self.getting.remove(block_id).
C20_NoKeyError ==
    [][\A t \in Readers :
          (pc'[t] = "idle" /\ rd'[t].result.exc = "KeyError") =>
             /\ pc[t] # "rd_remove"
             /\ ~(pc[t] \in {"get_pop", "set_evict"} /\ rd[t].which = "lru_cache")]_vars

\* C21: a reader of a block that is in the in-memory cache is not held at
\* the wait loop by another reader that is itself only reading that cached
\* block (it has added the identity and is about to take, or is taking, the
\* block out of the in-memory cache).
C21_HitsDoNotWait ==
    \A t, u \in Readers :
       (/\ t # u
        /\ pc[t] = "rd_check"
        /\ BlockId(rd[t]) \in getting
        /\ BlockKey(rd[t]) \in OdKeys(lru_cache)) =>
           ~(/\ Fetching(u, BlockId(rd[t]))
             /\ pc[u] \in {"gb_in", "get_pop"})

\* C22: when a getattr call for the root path or for a non-leaf path has
\* returned, the attribute cache holds a directory attribute under that path.
C22_DirAttrCached ==
    \A t \in Readers :
       (/\ pc[t] = "idle"
        /\ rd[t].op = "getattr"
        /\ rd[t].result.kind = "return"
        /\ (rd[t].path = RootPath \/ IsNonLeaf(rd[t].path))) =>
           /\ rd[t].result.attr = DirAttr
           /\ rd[t].path \in OdKeys(lru_attrs)
           /\ OdValue(lru_attrs, rd[t].path) = DirAttr

\* C23: whatever the backend, the block the Fetcher has just produced for
\* get_block has exactly block_size bytes when the block's byte range lies
\* wholly inside the file, and is never longer than block_size.
C23_FullBlocks ==
    \A t \in Readers :
       (pc[t] = "set_pop" /\ rd[t].ret = "gb_disk_set") =>
           IF (BlockNum(rd[t]) + 1) * block_size <= FileSize
           THEN Len(rd[t].block_data) = block_size
           ELSE Len(rd[t].block_data) <= block_size

\* C24: a reader has at most one block identity of its own in the in-flight
\* set, and none while it waits for, or is about to add, the identity of its
\* next block: no reader holds one entry while it waits for another.
C24_NoHoldAndWait ==
    \A t \in Readers :
       /\ Cardinality(rd[t].held \cap getting) <= 1
       /\ pc[t] \in {"rd_check", "rd_add"} => rd[t].held \cap getting = {}

\* C24 happens: a reader that has been through one block of its range waits
\* for its next block, whose identity another reader holds.
C24_Witness ==
    \E t, u \in Readers :
       /\ t # u
       /\ pc[t] = "rd_check"
       /\ Len(rd[t].blocks) >= 1
       /\ BlockId(rd[t]) \in getting
       /\ BlockId(rd[t]) \in rd[u].held

\* The step of reader t is the end of a get_block call: it returns its block
\* to read, or the Fetcher's exception leaves it.
GetBlockEnds(t) ==
    \/ pc[t] # "rd_remove" /\ pc'[t] = "rd_remove"
    \/ pc[t] = "gb_fetch" /\ pc'[t] = "idle"

\* C25: calls made one at a time; whenever a get_block call returns or raises
\* from the Fetcher, total_blocks = lru_hits + lru_misses and
\* lru_misses = disk_hits + disk_misses, and no step makes a counter smaller.
C25_CounterAccounting ==
    [][/\ total_blocks' >= total_blocks
       /\ lru_hits' >= lru_hits /\ lru_misses' >= lru_misses
       /\ disk_hits' >= disk_hits /\ disk_misses' >= disk_misses
       /\ \A t \in Readers :
             GetBlockEnds(t) =>
                /\ total_blocks' = lru_hits' + lru_misses'
                /\ lru_misses' = disk_hits' + disk_misses']_vars

====
